---------------------------- MODULE Spec2Model ----------------------------
(***************************************************************************)
(* A model of nirum_wsgi.py: the WSGI adapter that exposes a Nirum service *)
(* over HTTP.  Text (paths, query strings, templates, names, host names)   *)
(* is a sequence of one-character strings, so that the regular expressions *)
(* the code compiles from URI templates and from allowed origins are       *)
(* modelled by what they match, character by character.                    *)
(***************************************************************************)
EXTENDS Integers, Sequences, FiniteSets, TLC

(***************************************************************************)
(* Characters.                                                             *)
(***************************************************************************)

\* The characters of the model's texts, in code point order (Python compares
\* str values by code point).
UpperLetters ==
    <<"A", "B", "C", "D", "E", "G", "H", "I", "L", "M", "N", "O", "P", "Q", "S",
      "T", "U", "V", "X", "Y">>

LowerLetters ==
    <<"a", "b", "c", "d", "e", "g", "h", "i", "l", "m", "n", "o", "p", "q", "s",
      "t", "u", "v", "x", "y">>

AsciiOrder ==
    <<" ", "&", "*", "-", ".", "/", "=", "?">> \o UpperLetters \o <<"_">>
        \o LowerLetters \o <<"{", "}">>

AllChars == {AsciiOrder[i] : i \in 1..Len(AsciiOrder)}

Ord(c) == CHOOSE i \in 1..Len(AsciiOrder) : AsciiOrder[i] = c

Letters == {UpperLetters[i] : i \in 1..Len(UpperLetters)}
               \cup {LowerLetters[i] : i \in 1..Len(LowerLetters)}

\* [a-zA-Z0-9_-] of VARIABLE_PATTERN; [\w-] of the query template pattern is
\* the same class over the model's characters.
NameChars == Letters \cup {"_", "-"}

\* str.lower() and str.upper() on one character and on a text.
LowerChar(c) ==
    IF \E i \in 1..Len(UpperLetters) : UpperLetters[i] = c
    THEN LowerLetters[CHOOSE i \in 1..Len(UpperLetters) : UpperLetters[i] = c]
    ELSE c

Lower(s) == [i \in 1..Len(s) |-> LowerChar(s[i])]

UpperChar(c) ==
    IF \E i \in 1..Len(LowerLetters) : LowerLetters[i] = c
    THEN UpperLetters[CHOOSE i \in 1..Len(LowerLetters) : LowerLetters[i] = c]
    ELSE c

Upper(s) == [i \in 1..Len(s) |-> UpperChar(s[i])]

\* The request methods, as texts.
GET == <<"G", "E", "T">>
POST == <<"P", "O", "S", "T">>
PUT == <<"P", "U", "T">>
DELETE == <<"D", "E", "L", "E", "T", "E">>
OPTIONS == <<"O", "P", "T", "I", "O", "N", "S">>

\* Python's str < str.
RECURSIVE StrLTFrom(_, _, _)
StrLTFrom(a, b, i) ==
    IF i > Len(a) THEN i <= Len(b)
    ELSE IF i > Len(b) THEN FALSE
    ELSE IF a[i] = b[i] THEN StrLTFrom(a, b, i + 1)
    ELSE Ord(a[i]) < Ord(b[i])

StrLT(a, b) == StrLTFrom(a, b, 1)

\* The last index j >= i - 1 with s[i..j] wholly in the class cls.
RECURSIVE RunEnd(_, _, _)
RunEnd(s, i, cls) ==
    IF i <= Len(s) /\ s[i] \in cls THEN RunEnd(s, i + 1, cls) ELSE i - 1

\* The first index >= i of character c in s, or 0.
RECURSIVE IndexOf(_, _, _)
IndexOf(s, c, i) ==
    IF i > Len(s) THEN 0
    ELSE IF s[i] = c THEN i
    ELSE IndexOf(s, c, i + 1)

\* str.lstrip(c), str.rstrip(c) and str.strip() (blanks).
RECURSIVE LStrip(_, _)
LStrip(s, c) == IF s # <<>> /\ Head(s) = c THEN LStrip(Tail(s), c) ELSE s

RECURSIVE RStrip(_, _)
RStrip(s, c) ==
    IF s # <<>> /\ s[Len(s)] = c THEN RStrip(SubSeq(s, 1, Len(s) - 1), c) ELSE s

Strip(s) == RStrip(LStrip(s, " "), " ")

(***************************************************************************)
(* UriTemplateMatcher.                                                     *)
(***************************************************************************)

\* UriTemplateMatcher.make_name
make_name(name) == [i \in 1..Len(name) |-> IF name[i] = "-" THEN "_" ELSE name[i]]

\* VARIABLE_PATTERN tried at index i of t: the index of the closing brace of
\* "{name}" starting there, or 0.
VariableEnd(t, i) ==
    IF i <= Len(t) /\ t[i] = "{"
    THEN LET e == RunEnd(t, i + 1, NameChars)
         IN  IF e >= i + 1 /\ e + 1 <= Len(t) /\ t[e + 1] = "}" THEN e + 1 ELSE 0
    ELSE 0

\* parse_path_template: the compiled pattern as a sequence of items, a literal
\* character (re.escape of the text between variables) or a named group
\* (?P<name>.+?).  The trailing "$" is the end test of MatchFrom.
RECURSIVE parse_path_template(_, _)
parse_path_template(t, i) ==
    IF i > Len(t) THEN <<>>
    ELSE LET e == VariableEnd(t, i)
         IN  IF e > 0
             THEN <<[k |-> "grp", c |-> make_name(SubSeq(t, i + 1, e - 1))]>>
                      \o parse_path_template(t, e + 1)
             ELSE <<[k |-> "lit", c |-> <<t[i]>>]>> \o parse_path_template(t, i + 1)

\* parse_querystring_template: qs_pattern.finditer over the query template;
\* each match "key={name}" compiles to one pattern key=(?P<name>[^&]+)&?
RECURSIVE parse_querystring_template(_, _)
parse_querystring_template(t, i) ==
    IF i > Len(t) THEN <<>>
    ELSE LET e == RunEnd(t, i, NameChars)
             v == IF e >= i /\ e + 1 <= Len(t) /\ t[e + 1] = "="
                  THEN VariableEnd(t, e + 2) ELSE 0
         IN  IF v > 0
             THEN <<[key |-> SubSeq(t, i, e),
                     name |-> make_name(SubSeq(t, e + 3, v - 1))]>>
                      \o parse_querystring_template(t, v + 1)
             ELSE parse_querystring_template(t, i + 1)

\* The variable names of a compiled path pattern, in order.
PathNames(pat) ==
    LET G == SelectSeq(pat, LAMBDA it : it.k = "grp")
    IN  [i \in 1..Len(G) |-> G[i].c]

NoDuplicates(s) == \A i, j \in 1..Len(s) : s[i] = s[j] => i = j

\* UriTemplateMatcher.__init__: uri_template.split('?') unpacked into two
\* names raises ValueError when the template holds more than one "?";
\* add_variable raises AnnotationError on a repeated name.  ok = FALSE stands
\* for the exception exc.
UriTemplateMatcher(uri_template) ==
    LET q == IndexOf(uri_template, "?", 1)
        parts == Cardinality({i \in 1..Len(uri_template) : uri_template[i] = "?"}) + 1
        path_template == IF q > 0 THEN SubSeq(uri_template, 1, q - 1)
                         ELSE uri_template
        querystring_template == IF q > 0
                                THEN SubSeq(uri_template, q + 1, Len(uri_template))
                                ELSE <<>>
        pp == parse_path_template(path_template, 1)
        qp == parse_querystring_template(querystring_template, 1)
        ns == PathNames(pp) \o [i \in 1..Len(qp) |-> qp[i].name]
    IN  [ok |-> parts <= 2 /\ NoDuplicates(ns),
         exc |-> IF parts > 2 THEN "ValueError"
                 ELSE IF ~NoDuplicates(ns) THEN "AnnotationError"
                 ELSE "",
         path_pattern |-> pp,
         querystring_pattern |-> qp,
         names |-> {ns[i] : i \in 1..Len(ns)}]

\* re.match of the compiled path pattern from item i of pat against s from
\* index j.  A group takes the fewest characters (one or more) that let the
\* rest match; the pattern ends with "$".
RECURSIVE MatchFrom(_, _, _, _)
RECURSIVE MatchGroup(_, _, _, _, _)
MatchFrom(pat, i, s, j) ==
    IF i > Len(pat) THEN [ok |-> j = Len(s) + 1, result |-> <<>>]
    ELSE IF pat[i].k = "lit"
    THEN IF j <= Len(s) /\ <<s[j]>> = pat[i].c
         THEN MatchFrom(pat, i + 1, s, j + 1)
         ELSE [ok |-> FALSE, result |-> <<>>]
    ELSE MatchGroup(pat, i, s, j, 1)

MatchGroup(pat, i, s, j, n) ==
    IF j + n - 1 > Len(s) THEN [ok |-> FALSE, result |-> <<>>]
    ELSE LET r == MatchFrom(pat, i + 1, s, j + n)
         IN  IF r.ok
             THEN [ok |-> TRUE,
                   result |-> <<[name |-> pat[i].c,
                                 value |-> SubSeq(s, j, j + n - 1)]>> \o r.result]
             ELSE MatchGroup(pat, i, s, j, n + 1)

\* Iterating a set of names: a set of two or more names is yielded in an
\* order that depends on the hash seed of the process and on the order in
\* which the set was filled; order lists the names as this set yields them.
SetIter(names, order) ==
    IF names = {} THEN <<>>
    ELSE IF Cardinality(names) = 1 THEN <<CHOOSE n \in names : TRUE>>
    ELSE SelectSeq(order, LAMBDA n : n \in names)

\* UriTemplateMatcher.match_path: a UriTemplateMatchResult, whose result is
\* None (ok = FALSE) or the list of (name, value) pairs, one for each name of
\* the set self.names & groupdict().keys(), in the order the set yields them:
\* set_order gives that order for each list of groups a pattern can hold.
match_path(matcher, path, set_order) ==
    LET match == MatchFrom(matcher.path_pattern, 1, path, 1)
        groupdict == [n \in {match.result[i].name : i \in 1..Len(match.result)} |->
                         (CHOOSE i \in 1..Len(match.result) :
                              match.result[i].name = n)]
        groups == PathNames(matcher.path_pattern)
        names == SetIter(matcher.names \cap DOMAIN groupdict,
                         IF groups \in DOMAIN set_order THEN set_order[groups]
                         ELSE <<>>)
    IN  [ok |-> match.ok,
         result |-> [k \in 1..Len(names) |->
                        [name |-> names[k],
                         value |-> match.result[groupdict[names[k]]].value]]]

\* Whether s holds the text k at index i.
HasAt(s, k, i) == i + Len(k) - 1 <= Len(s) /\ SubSeq(s, i, i + Len(k) - 1) = k

\* pattern.finditer(querystring) for one compiled query pattern
\* key=(?P<name>[^&]+)&? : the captured values, left to right.
RECURSIVE FindIter(_, _, _)
FindIter(p, qs, i) ==
    IF i > Len(qs) THEN <<>>
    ELSE LET vs == i + Len(p.key) + 1
             ve == RunEnd(qs, vs, AllChars \ {"&"})
         IN  IF HasAt(qs, p.key \o <<"=">>, i) /\ ve >= vs
             THEN <<[name |-> p.name, value |-> SubSeq(qs, vs, ve)]>>
                      \o FindIter(p, qs, IF ve + 1 <= Len(qs) THEN ve + 2 ELSE ve + 1)
             ELSE FindIter(p, qs, i + 1)

RECURSIVE FindAll(_, _, _)
FindAll(pats, qs, i) ==
    IF i > Len(pats) THEN <<>>
    ELSE FindIter(pats[i], qs, 1) \o FindAll(pats, qs, i + 1)

\* UriTemplateMatcher.match_querystring: None (ok = FALSE) unless every
\* compiled pattern found a value.
match_querystring(matcher, querystring) ==
    LET variables == FindAll(matcher.querystring_pattern, querystring, 1)
        found == {variables[i].name : i \in 1..Len(variables)}
    IN  IF Cardinality(found) = Len(matcher.querystring_pattern)
        THEN [ok |-> TRUE, result |-> variables]
        ELSE [ok |-> FALSE, result |-> <<>>]

(***************************************************************************)
(* list.sort as CPython runs it on a list shorter than 64 items: one run   *)
(* found by count_run, completed by binarysort.  The comparison is the     *)
(* key's "<" and nothing else, so a key that is only partially ordered     *)
(* (frozenset) is sorted the way the code sorts it.                        *)
(***************************************************************************)

\* key(x) < key(y) for the two sort keys the code uses: the template text
\* (str <) and the matcher's names (frozenset <, proper subset).
KeyLT(kind, x, y) ==
    IF kind = "uri_template" THEN StrLT(x.uri_template, y.uri_template)
    ELSE x.matcher.names \subseteq y.matcher.names
             /\ x.matcher.names # y.matcher.names

Reverse(s) == [i \in 1..Len(s) |-> s[Len(s) + 1 - i]]

\* count_run: the length of the run starting at xs[1], and whether it is
\* strictly descending.
RECURSIVE RunLen(_, _, _, _)
RunLen(kind, xs, n, desc) ==
    IF n >= Len(xs) THEN n
    ELSE IF KeyLT(kind, xs[n + 1], xs[n]) = desc THEN RunLen(kind, xs, n + 1, desc)
    ELSE n

count_run(kind, xs) ==
    IF Len(xs) < 2 THEN [n |-> Len(xs), descending |-> FALSE]
    ELSE LET desc == KeyLT(kind, xs[2], xs[1])
         IN  [n |-> RunLen(kind, xs, 2, desc), descending |-> desc]

\* binarysort's search for the place of pivot in the sorted xs[l..r-1].
RECURSIVE BinarySearch(_, _, _, _, _)
BinarySearch(kind, xs, pivot, l, r) ==
    IF l >= r THEN l
    ELSE LET p == l + ((r - l) \div 2)
         IN  IF KeyLT(kind, pivot, xs[p]) THEN BinarySearch(kind, xs, pivot, l, p)
             ELSE BinarySearch(kind, xs, pivot, p + 1, r)

\* binarysort: xs[1..start-1] is sorted; insert xs[start], xs[start+1], ...
RECURSIVE binarysort(_, _, _)
binarysort(kind, xs, start) ==
    IF start > Len(xs) THEN xs
    ELSE LET pivot == xs[start]
             l == BinarySearch(kind, xs, pivot, 1, start)
             ys == [i \in 1..Len(xs) |->
                       IF i < l \/ i > start THEN xs[i]
                       ELSE IF i = l THEN pivot
                       ELSE xs[i - 1]]
         IN  binarysort(kind, ys, start + 1)

\* list.sort(key=..., reverse=...) / sorted(...)
ListSort(kind, xs, reverse) ==
    LET a == IF reverse THEN Reverse(xs) ELSE xs
        run == count_run(kind, a)
        b == IF run.descending
             THEN Reverse(SubSeq(a, 1, run.n)) \o SubSeq(a, run.n + 1, Len(a))
             ELSE a
        c == IF Len(a) < 2 THEN a ELSE binarysort(kind, b, run.n + 1)
    IN  IF reverse THEN Reverse(c) ELSE c

(***************************************************************************)
(* Types, values and the codec (nirum's serialize_meta / deserialize_meta, *)
(* imported by the module and used as a pure function).                    *)
(***************************************************************************)

\* A declared type is text, or Optional[text] (a union with NoneType).
TText == [base |-> "text", optional |-> FALSE]
TOptText == [base |-> "text", optional |-> TRUE]
\* NoneType, the return type of a procedure that returns nothing.
TNone == [base |-> "None", optional |-> FALSE]

\* is_optional_type
is_optional_type(type_) == type_.optional

\* JSON values (payload entries, response bodies): null, a string, a number,
\* a list.  Python values (arguments, results): None, str, int.
JNull == [j |-> "null", v |-> <<>>]
JStr(s) == [j |-> "string", v |-> s]
JNum == [j |-> "number", v |-> <<"1">>]
JList(vs) == [j |-> "list", v |-> vs]

PyNone == [py |-> "None", v |-> <<>>]
PyStr(s) == [py |-> "str", v |-> s]
PyInt == [py |-> "int", v |-> <<"1">>]

\* deserialize_meta(type_, data): ok = FALSE stands for ValueError.
deserialize_meta(type_, data) ==
    IF data.j = "null"
    THEN [ok |-> type_.optional \/ type_.base = "None", value |-> PyNone]
    ELSE IF data.j = "string"
    THEN [ok |-> type_.base = "text", value |-> PyStr(data.v)]
    ELSE [ok |-> FALSE, value |-> PyNone]

\* serialize_meta(value)
serialize_meta(value) ==
    IF value.py = "None" THEN JNull
    ELSE IF value.py = "str" THEN JStr(value.v)
    ELSE JNum

(***************************************************************************)
(* WsgiApp.__init__                                                        *)
(***************************************************************************)

\* The items of a sequence as a set.
Range(s) == {s[i] : i \in 1..Len(s)}

\* The rules of the http_resource annotations, in the order the annotation
\* dict yields the methods.  ok = FALSE stands for the exception exc that
\* leaves __init__: AnnotationError when the annotated path is the root, a
\* template variable is repeated, or the template leaves a parameter of the
\* method unsatisfied; the ValueError of UriTemplateMatcher, which __init__
\* does not catch.
RECURSIVE AnnotatedRules(_, _)
AnnotatedRules(methods, i) ==
    IF i > Len(methods) THEN [ok |-> TRUE, exc |-> "", rules |-> <<>>]
    ELSE LET m == methods[i]
             rest == AnnotatedRules(methods, i + 1)
         IN  IF m.http = <<>> THEN rest
             ELSE LET params == m.http[1]
                      matcher == UriTemplateMatcher(params.path)
                      parameters == {m.params[k].behind : k \in 1..Len(m.params)}
                  IN  IF LStrip(params.path, "/") = <<>>
                      THEN [ok |-> FALSE, exc |-> "AnnotationError", rules |-> <<>>]
                      ELSE IF ~matcher.ok
                      THEN [ok |-> FALSE, exc |-> matcher.exc, rules |-> <<>>]
                      ELSE IF parameters \ matcher.names # {}
                      THEN [ok |-> FALSE, exc |-> "AnnotationError", rules |-> <<>>]
                      ELSE IF ~rest.ok THEN rest
                      ELSE [ok |-> TRUE, exc |-> "",
                            rules |-> <<[uri_template |-> params.path,
                                         matcher |-> matcher,
                                         verb |-> params.method,
                                         name |-> m.name]>> \o rest.rules]

\* The origin pattern with "." in place of "[^.]": "*" spans labels.
RECURSIVE OriginPatternMatch_any(_, _, _, _)
OriginPatternMatch_any(d, i, host, j) ==
    IF i > Len(d) THEN j = Len(host) + 1
    ELSE IF d[i] = "*"
    THEN \E n \in 1..(Len(host) + 1 - j) : OriginPatternMatch_any(d, i + 1, host, j + n)
    ELSE /\ j <= Len(host)
         /\ host[j] = d[i]
         /\ OriginPatternMatch_any(d, i + 1, host, j + 1)

\* re.split of an allowed origin at "*": the pattern compiled from it matches
\* host when every "*" stands for one or more characters other than ".".
RECURSIVE OriginPatternMatch(_, _, _, _)
OriginPatternMatch(d, i, host, j) ==
    IF i > Len(d) THEN j = Len(host) + 1
    ELSE IF d[i] = "*"
    THEN \E n \in 1..(Len(host) + 1 - j) :
             /\ \A k \in j..(j + n - 1) : host[k] # "."
             /\ OriginPatternMatch(d, i + 1, host, j + n)
    ELSE /\ j <= Len(host)
         /\ host[j] = d[i]
         /\ OriginPatternMatch(d, i + 1, host, j + 1)

\* The set s of texts as the sequence sorted(s).
RECURSIVE Sorted(_)
Sorted(s) ==
    IF s = {} THEN <<>>
    ELSE LET least == CHOOSE x \in s : \A y \in s : ~StrLT(y, x)
         IN  <<least>> \o Sorted(s \ {least})

\* WsgiApp.__init__
WsgiApp(service, allowed_origins, allowed_headers) ==
    LET built == AnnotatedRules(service.methods, 1)
    IN  [ok |-> built.ok,
         exc |-> built.exc,
         service |-> service,
         allowed_origins |->
             {Lower(Strip(d)) : d \in {x \in allowed_origins : "*" \notin Range(x)}},
         allowed_origin_patterns |->
             {Lower(Strip(d)) : d \in {x \in allowed_origins : "*" \in Range(x)}},
         allowed_headers |-> {Lower(Strip(h)) : h \in allowed_headers},
         rules |-> ListSort("uri_template", built.rules, TRUE)]

(***************************************************************************)
(* match_request                                                           *)
(***************************************************************************)

\* UriTemplateMatchResult.update: the result becomes a list (no longer None)
\* whenever self.result or match_result is true, and match_result is true
\* whenever its result is not None.
update(self, match_result) ==
    IF self.result # <<>> \/ match_result.ok
    THEN [ok |-> TRUE, result |-> self.result \o match_result.result]
    ELSE self

\* One turn of the loop of match_request over a rule: the rule's match
\* result after the query string was looked at, and whether the rule counts.
RuleMatch(rule, path_info, querystring, set_order) ==
    LET variable_match == match_path(rule.matcher, path_info, set_order)
        qs == IF querystring # <<>>
              THEN match_querystring(rule.matcher, querystring)
              ELSE [ok |-> TRUE, result |-> <<>>]
        merged == IF querystring # <<>> /\ qs.ok
                  THEN update(variable_match, qs)
                  ELSE variable_match
    IN  [candidate |-> merged.ok /\ qs.ok, match_group |-> merged]

\* The loop of match_request from rule i on, with the verbs matched and the
\* match selected so far.
RECURSIVE MatchLoop(_, _, _, _, _, _, _, _)
MatchLoop(rs, i, request_method, path_info, querystring, matched_verb, match, set_order) ==
    IF i > Len(rs) THEN [match |-> match, matched_verb |-> matched_verb]
    ELSE LET rule == rs[i]
             m == RuleMatch(rule, path_info, querystring, set_order)
             verb == Upper(rule.verb)
             selects == m.candidate /\ match = <<>>
                           /\ request_method \in {rule.verb, OPTIONS}
         IN  MatchLoop(rs, i + 1, request_method, path_info, querystring,
                       IF m.candidate THEN Append(matched_verb, verb)
                       ELSE matched_verb,
                       IF selects
                       THEN <<[match_group |-> m.match_group,
                               verb |-> verb,
                               method_name |-> rule.name]>>
                       ELSE match,
                       set_order)

\* The order in which match_request scans the rules.
request_rules(rules) == ListSort("names", rules, TRUE)

\* match_request: match is <<>> (None) or <<PathMatch>>.  For the root path the
\* code returns (None, None); the caller reads matched_verb only with a match.
match_request(rules, request_method, path_info, querystring, set_order) ==
    IF path_info = <<"/">> THEN [match |-> <<>>, matched_verb |-> <<>>]
    ELSE MatchLoop(request_rules(rules), 1, request_method, path_info,
                   querystring, <<>>, <<>>, set_order)

(***************************************************************************)
(* Requests and responses.                                                 *)
(*                                                                         *)
(* A request is [method, path, querystring, body, origin].  The body is    *)
(* given by what json.loads makes of it: kind "empty" (no data),           *)
(* "malformed", "object" (fields: key -> JSON value), "list" (items) or    *)
(* "number".  The Origin header is absent (<<>>) or <<[scheme, netloc]>>,  *)
(* the two parts urlparse reads from it.                                   *)
(***************************************************************************)

EmptyDict == [k \in {} |-> JNull]

NoMessage == [text |-> "None", arg |-> <<>>]
Message(text, arg) == [text |-> text, arg |-> arg]

\* make_error_response, and _raw_response's JSON body
make_error_response(error_type, message) ==
    [kind |-> "error", tag |-> error_type, message |-> message, value |-> JNull]

ResultBody(kind, value) ==
    [kind |-> kind, tag |-> "", message |-> NoMessage, value |-> value]

\* werkzeug's HTTP_STATUS_CODES, each reason phrase as error makes a tag of
\* it: phrase.lower().replace(' ', '_').
HTTP_STATUS_CODES ==
    (100 :> "continue") @@
    (101 :> "switching_protocols") @@
    (102 :> "processing") @@
    (200 :> "ok") @@
    (201 :> "created") @@
    (202 :> "accepted") @@
    (203 :> "non_authoritative_information") @@
    (204 :> "no_content") @@
    (205 :> "reset_content") @@
    (206 :> "partial_content") @@
    (207 :> "multi_status") @@
    (226 :> "im_used") @@
    (300 :> "multiple_choices") @@
    (301 :> "moved_permanently") @@
    (302 :> "found") @@
    (303 :> "see_other") @@
    (304 :> "not_modified") @@
    (305 :> "use_proxy") @@
    (307 :> "temporary_redirect") @@
    (308 :> "permanent_redirect") @@
    (400 :> "bad_request") @@
    (401 :> "unauthorized") @@
    (402 :> "payment_required") @@
    (403 :> "forbidden") @@
    (404 :> "not_found") @@
    (405 :> "method_not_allowed") @@
    (406 :> "not_acceptable") @@
    (407 :> "proxy_authentication_required") @@
    (408 :> "request_timeout") @@
    (409 :> "conflict") @@
    (410 :> "gone") @@
    (411 :> "length_required") @@
    (412 :> "precondition_failed") @@
    (413 :> "request_entity_too_large") @@
    (414 :> "request_uri_too_long") @@
    (415 :> "unsupported_media_type") @@
    (416 :> "requested_range_not_satisfiable") @@
    (417 :> "expectation_failed") @@
    (418 :> "i'm_a_teapot") @@
    (422 :> "unprocessable_entity") @@
    (423 :> "locked") @@
    (424 :> "failed_dependency") @@
    (426 :> "upgrade_required") @@
    (428 :> "precondition_required") @@
    (429 :> "too_many_requests") @@
    (431 :> "request_header_fields_too_large") @@
    (449 :> "retry_with") @@
    (451 :> "unavailable_for_legal_reasons") @@
    (500 :> "internal_server_error") @@
    (501 :> "not_implemented") @@
    (502 :> "bad_gateway") @@
    (503 :> "service_unavailable") @@
    (504 :> "gateway_timeout") @@
    (505 :> "http_version_not_supported") @@
    (507 :> "insufficient_storage") @@
    (510 :> "not_extended")

\* HTTP_STATUS_CODES.get(status_code, 'http error').lower().replace(' ', '_')
status_error_tag(status_code) ==
    IF status_code \in DOMAIN HTTP_STATUS_CODES THEN HTTP_STATUS_CODES[status_code]
    ELSE "http_error"

\* WsgiApp._raw_response
raw_response(status_code, response_json) ==
    [kind |-> "response",
     status |-> status_code,
     headers |-> <<[k |-> "Content-type", v |-> <<"application/json">>]>>,
     body |-> response_json]

\* WsgiApp.error: 404 and 405 carry their own message, 400 the given one, any
\* other status the given message or the reason phrase.
error(status_code, message) ==
    raw_response(status_code,
        make_error_response(status_error_tag(status_code),
            CASE status_code = 404 -> Message("The requested URL was not found", <<>>)
              [] status_code = 405 -> Message("The requested URL was not allowed HTTP method", <<>>)
              [] status_code = 400 -> message
              [] OTHER -> IF message = NoMessage
                          THEN Message("reason phrase", <<>>) ELSE message))

\* An exception that no handler of route catches: it leaves WsgiApp.__call__.
Escapes(exception) ==
    [kind |-> "exception", status |-> 0,
     headers |-> <<>>, body |-> ResultBody(exception, JNull)]

\* start_response('200 OK', match.cors_headers); return []
OptionsResponse(cors_headers) ==
    [kind |-> "response", status |-> 200,
     headers |-> cors_headers, body |-> ResultBody("empty", JNull)]

(***************************************************************************)
(* WsgiApp.allows_origin and WsgiApp.dispatch_method                       *)
(***************************************************************************)

\* urlparse(origin).hostname: None (<<>>) without a netloc, else lower case.
Hostname(origin) == IF origin.netloc = <<>> THEN <<>> ELSE <<Lower(origin.netloc)>>

\* WsgiApp.allows_origin: "True", "False", or "TypeError" (pattern.match(None)).
allows_origin(app, origin) ==
    LET host == Hostname(origin)
    IN  IF origin.scheme \notin {"http", "https"} THEN "False"
        ELSE IF host # <<>> /\ host[1] \in app.allowed_origins THEN "True"
        ELSE IF app.allowed_origin_patterns = {} THEN "False"
        ELSE IF host = <<>> THEN "TypeError"
        ELSE IF \E d \in app.allowed_origin_patterns :
                    OriginPatternMatch(d, 1, host[1], 1)
        THEN "True"
        ELSE "False"

\* UriTemplateMatchResult.get_variable: None, the value, or the list of
\* values captured under the name.
get_variable(match_group, variable_name) ==
    LET name == RStrip(variable_name, "_")
        values == SelectSeq(match_group.result, LAMBDA r : r.name = name)
    IN  IF Len(values) > 1 THEN JList([i \in 1..Len(values) |-> JStr(values[i].value)])
        ELSE IF Len(values) = 1 THEN JStr(values[1].value)
        ELSE JNull

\* The method of the service with the given attribute (facial) name.
MethodOf(service, name) ==
    LET i == CHOOSE i \in 1..Len(service.methods) : service.methods[i].name = name
    IN  service.methods[i]

\* name_map.behind_names: the methods with the given behind name (none: KeyError)
BehindNames(service, service_method) ==
    SelectSeq(service.methods, LAMBDA m : m.behind = service_method)

\* request.args.get(key): the value of the first key=value item of the query
\* string with that key, <<>> for None.
RECURSIVE ArgsGet(_, _, _)
ArgsGet(qs, key, i) ==
    IF i > Len(qs) THEN <<>>
    ELSE LET amp == IndexOf(qs, "&", i)
             e == IF amp = 0 THEN Len(qs) ELSE amp - 1
             item == SubSeq(qs, i, e)
             eq == IndexOf(item, "=", 1)
             k == IF eq = 0 THEN item ELSE SubSeq(item, 1, eq - 1)
             v == IF eq = 0 THEN <<>> ELSE SubSeq(item, eq + 1, Len(item))
         IN  IF item # <<>> /\ k = key THEN <<v>> ELSE ArgsGet(qs, key, e + 2)

\* payload.update with the JSON object
DictUpdate(payload, fields) ==
    [k \in (DOMAIN payload) \cup (DOMAIN fields) |->
        IF k \in DOMAIN fields THEN fields[k] ELSE payload[k]]

\* The payload of a request body that parse_json_payload accepts.
BodyPayload(body) ==
    IF body.kind \in {"empty", "object"}
    THEN [t |-> "dict", fields |-> body.fields, items |-> <<>>]
    ELSE [t |-> body.kind, fields |-> EmptyDict, items |-> body.items]

\* The CORS headers dispatch_method adds after the Allow-Methods header.  The
\* value of a header is the sequence of the items its text joins with ", ".
CorsTail(app, request) ==
    (IF app.allowed_headers # {}
     THEN <<[k |-> "Access-Control-Allow-Headers", v |-> Sorted(app.allowed_headers)]>>
     ELSE <<>>)
    \o (IF request.origin # <<>> /\ allows_origin(app, request.origin[1]) = "True"
        THEN <<[k |-> "Access-Control-Allow-Origin", v |-> request.origin]>>
        ELSE <<>>)

Dispatched(routed, service_method, payload, cors_headers) ==
    [kind |-> "MethodDispatch", status_code |-> 0, message |-> NoMessage,
     routed |-> routed, service_method |-> service_method,
     payload |-> payload, cors_headers |-> cors_headers]

Raised(kind, status_code, message) ==
    [kind |-> kind, status_code |-> status_code, message |-> message,
     routed |-> FALSE, service_method |-> <<>>,
     payload |-> BodyPayload([kind |-> "empty", fields |-> EmptyDict, items |-> <<>>]),
     cors_headers |-> <<>>]

\* request.headers['Origin'] makes allows_origin raise.
OriginFails(app, request) ==
    request.origin # <<>> /\ allows_origin(app, request.origin[1]) = "TypeError"

InvalidJson == Raised("MethodDispatchError", 400, Message("Invalid JSON payload", <<>>))

\* The payload of a routed request: the captured value (or None) of every
\* parameter of the procedure.
Captured(params, match_group) ==
    [k \in {RStrip(params[i].name, "_") : i \in 1..Len(params)} |->
        get_variable(match_group, k)]

\* dispatch_method when a rule matched, with a plausible slip: the body is
\* parsed and merged whatever the verb of the rule.
RoutedDispatch_reads_body(app, request, request_match, matched_verb) ==
    IF request.body.kind = "malformed" THEN InvalidJson
    ELSE IF request.body.kind \in {"list", "number"}
    THEN Raised("TypeError", 0, NoMessage)
    ELSE IF OriginFails(app, request) THEN Raised("TypeError", 0, NoMessage)
    ELSE Dispatched(TRUE, <<request_match.method_name>>,
             [t |-> "dict",
              fields |-> DictUpdate(
                             Captured(MethodOf(app.service,
                                               request_match.method_name).params,
                                      request_match.match_group),
                             request.body.fields),
              items |-> <<>>],
             <<[k |-> "Vary", v |-> <<"Origin">>],
               [k |-> "Access-Control-Allow-Methods",
                v |-> Append(matched_verb, OPTIONS)]>>
                 \o CorsTail(app, request))

\* dispatch_method when a rule matched (request_match is true).
RoutedDispatch(app, request, request_match, matched_verb) ==
    IF request_match.verb \notin {GET, DELETE} /\ request.body.kind = "malformed"
    THEN InvalidJson
    ELSE IF request_match.verb \notin {GET, DELETE}
               /\ request.body.kind \in {"list", "number"}
    THEN Raised("TypeError", 0, NoMessage)
    ELSE IF OriginFails(app, request) THEN Raised("TypeError", 0, NoMessage)
    ELSE Dispatched(TRUE, <<request_match.method_name>>,
             [t |-> "dict",
              fields |-> IF request_match.verb \notin {GET, DELETE}
                         THEN DictUpdate(
                                  Captured(MethodOf(app.service,
                                                    request_match.method_name).params,
                                           request_match.match_group),
                                  request.body.fields)
                         ELSE Captured(MethodOf(app.service,
                                                request_match.method_name).params,
                                       request_match.match_group),
              items |-> <<>>],
             <<[k |-> "Vary", v |-> <<"Origin">>],
               [k |-> "Access-Control-Allow-Methods",
                v |-> Append(matched_verb, OPTIONS)]>>
                 \o CorsTail(app, request))

\* dispatch_method when no rule matched: the fallback protocol.
FallbackDispatch(app, request) ==
    IF request.method \notin {POST, OPTIONS}
    THEN Raised("MethodDispatchError", 405, NoMessage)
    ELSE IF request.body.kind = "malformed" THEN InvalidJson
    ELSE IF OriginFails(app, request) THEN Raised("TypeError", 0, NoMessage)
    ELSE Dispatched(FALSE, ArgsGet(request.querystring, <<"m","e","t","h","o","d">>, 1),
             BodyPayload(request.body),
             <<[k |-> "Vary", v |-> <<"Origin">>],
               [k |-> "Access-Control-Allow-Methods", v |-> <<POST, OPTIONS>>]>>
                 \o CorsTail(app, request))

\* dispatch_method after the call of match_request, whose result is m.
DispatchMatch(app, request, m) ==
    IF m.match # <<>>
    THEN RoutedDispatch(app, request, m.match[1], m.matched_verb)
    ELSE FallbackDispatch(app, request)

\* WsgiApp.dispatch_method: a MethodDispatch, or the exception it raises
\* (MethodDispatchError with its status and message, or a TypeError).
dispatch_method(app, request, set_order) ==
    DispatchMatch(app, request,
                  match_request(app.rules, request.method, request.path,
                                request.querystring, set_order))

(***************************************************************************)
(* WsgiApp.rpc and WsgiApp.route                                           *)
(***************************************************************************)

\* _get_argument_value(payload, key, type_): the raw value, or the exception
\* raised.  A payload that is a JSON list has "in" but no get(); one that is
\* a number has neither.
get_argument_value(payload, key, type_) ==
    IF payload.t = "number" THEN [kind |-> "TypeError", data |-> JNull]
    ELSE IF payload.t = "list"
    THEN IF key \in Range(payload.items) \/ is_optional_type(type_)
         THEN [kind |-> "AttributeError", data |-> JNull]
         ELSE [kind |-> "NirumProcedureArgumentRequiredError", data |-> JNull]
    ELSE IF key \in DOMAIN payload.fields THEN [kind |-> "ok", data |-> payload.fields[key]]
    ELSE IF is_optional_type(type_) THEN [kind |-> "ok", data |-> JNull]
    ELSE [kind |-> "NirumProcedureArgumentRequiredError", data |-> JNull]

\* _parse_procedure_arguments with a plausible slip: a parameter whose value
\* does not decode is left out and the loop goes on.
RECURSIVE parse_procedure_arguments_skips_invalid(_, _, _)
parse_procedure_arguments_skips_invalid(params, request_json, i) ==
    IF i > Len(params) THEN [kind |-> "ok", arg |-> <<>>, arguments |-> <<>>]
    ELSE LET behind_name == params[i].behind
             got == get_argument_value(request_json, behind_name, params[i].type)
             value == deserialize_meta(params[i].type, got.data)
             rest == parse_procedure_arguments_skips_invalid(params, request_json, i + 1)
         IN  IF got.kind # "ok"
             THEN [kind |-> got.kind, arg |-> behind_name, arguments |-> <<>>]
             ELSE IF rest.kind # "ok" THEN rest
             ELSE IF ~value.ok THEN rest
             ELSE [kind |-> "ok", arg |-> <<>>,
                   arguments |-> <<[name |-> params[i].name, value |-> value.value]>>
                                     \o rest.arguments]

\* WsgiApp._parse_procedure_arguments from parameter i on: the arguments
\* (parameter name -> value), or the first exception with the behind name of
\* the parameter that raised it.
RECURSIVE parse_procedure_arguments(_, _, _)
parse_procedure_arguments(params, request_json, i) ==
    IF i > Len(params) THEN [kind |-> "ok", arg |-> <<>>, arguments |-> <<>>]
    ELSE LET behind_name == params[i].behind
             got == get_argument_value(request_json, behind_name, params[i].type)
             value == deserialize_meta(params[i].type, got.data)
             rest == parse_procedure_arguments(params, request_json, i + 1)
         IN  IF got.kind # "ok"
             THEN [kind |-> got.kind, arg |-> behind_name, arguments |-> <<>>]
             ELSE IF ~value.ok
             THEN [kind |-> "NirumProcedureArgumentValueError",
                   arg |-> behind_name, arguments |-> <<>>]
             ELSE IF rest.kind # "ok" THEN rest
             ELSE [kind |-> "ok", arg |-> <<>>,
                   arguments |-> <<[name |-> params[i].name, value |-> value.value]>>
                                     \o rest.arguments]

\* _check_return_type with a plausible slip: None passes for any return type.
check_return_type_none_passes(type_hint, procedure_result) ==
    IF procedure_result = PyNone THEN TRUE
    ELSE deserialize_meta(type_hint, serialize_meta(procedure_result)).ok

\* WsgiApp._check_return_type
check_return_type(type_hint, procedure_result) ==
    IF procedure_result = PyNone
    THEN type_hint.base = "None" \/ is_optional_type(type_hint)
    ELSE deserialize_meta(type_hint, serialize_meta(procedure_result)).ok

\* The part of rpc before the call of the procedure: "call" with the method and its
\* arguments, "ServiceMethodError", another exception that escapes, or the
\* error response rpc returns.
rpc_bind(app, service_method, request_json) ==
    LET found == BehindNames(app.service, service_method)
        method == found[1]
        parsed == parse_procedure_arguments(method.params, request_json, 1)
        none == [kind |-> "", method |-> <<>>, arguments |-> <<>>,
                 response |-> Escapes("")]
    IN  IF found = <<>> THEN [none EXCEPT !.kind = "ServiceMethodError"]
        ELSE IF method.impl = "missing"
        THEN [none EXCEPT !.kind = "return",
                  !.response = error(400, Message("Service has no procedure", service_method))]
        ELSE IF method.impl # "callable"
        THEN [none EXCEPT !.kind = "return",
                  !.response = error(400, Message("Remote procedure is not callable", service_method))]
        ELSE IF parsed.kind = "NirumProcedureArgumentRequiredError"
        THEN [none EXCEPT !.kind = "return",
                  !.response = error(400, Message("A argument is missing, it is required", parsed.arg))]
        ELSE IF parsed.kind = "NirumProcedureArgumentValueError"
        THEN [none EXCEPT !.kind = "return",
                  !.response = error(400, Message("Incorrect type for argument", parsed.arg))]
        ELSE IF parsed.kind # "ok"
        THEN [none EXCEPT !.kind = "escape", !.response = Escapes(parsed.kind)]
        ELSE [none EXCEPT !.kind = "call", !.method = <<method>>,
                  !.arguments = parsed.arguments]

\* service_method.replace('_', '-'): the name the two messages of status 500
\* carry.
hyphened_service_method(service_method) ==
    [i \in 1..Len(service_method) |->
        IF service_method[i] = "_" THEN "-" ELSE service_method[i]]

\* The part of rpc after the call of the procedure: outcome is what the procedure
\* did, [raised |-> TRUE] for one of the method's declared errors or
\* [raised |-> FALSE, result |-> value] for a normal return.
rpc_return(method, service_method, outcome) ==
    IF outcome.raised
    THEN raw_response(400, ResultBody("declared error", JNull))
    ELSE IF ~check_return_type(method.ret, outcome.result)
    THEN error(500,
               IF outcome.result = PyNone
               THEN Message("return type is not optional, but tried to return nothing",
                            hyphened_service_method(service_method))
               ELSE Message("tried to return a value of an invalid type",
                            hyphened_service_method(service_method)))
    ELSE raw_response(200, ResultBody("result", serialize_meta(outcome.result)))

\* The loop of route over match.cors_headers: a header the response has
\* already is extended, any other is set.
RECURSIVE MergeHeaders(_, _, _)
MergeHeaders(headers, cors_headers, i) ==
    IF i > Len(cors_headers) THEN headers
    ELSE LET h == cors_headers[i]
             at == {j \in 1..Len(headers) : headers[j].k = h.k}
         IN  MergeHeaders(
                 IF at # {}
                 THEN [j \in 1..Len(headers) |->
                          IF j \in at THEN [k |-> h.k, v |-> headers[j].v \o h.v]
                          ELSE headers[j]]
                 ELSE Append(headers, h),
                 cors_headers, i + 1)

WithCors(response, cors_headers) ==
    [response EXCEPT !.headers = MergeHeaders(response.headers, cors_headers, 1)]

(***************************************************************************)
(* The services, the applications and the requests of the model.           *)
(***************************************************************************)

\* A method of a service: its attribute name, its behind (wire) name, its
\* parameters in order, its return type, whether it declares errors, whether
\* the service instance has a callable of that name, and its http_resource
\* annotation (<<>> without one).
Param(name, type) == [name |-> name, behind |-> name, type |-> type]

Method(name, behind, params, ret, errors, http) ==
    [name |-> name, behind |-> behind, params |-> params, ret |-> ret,
     errors |-> errors, impl |-> "callable", http |-> http]

Http(verb, path) == <<[method |-> verb, path |-> path]>>

\* search(t) at GET /s?q={t}; ping() at POST /p; update(a) at POST /u/{a};
\* echo(t, o?) without a route; x_ (behind name x) at PUT /x.
Service1 ==
    [methods |-> <<
        Method(<<"s">>, <<"s">>, <<Param(<<"t">>, TText)>>, TText, FALSE,
               Http(GET, <<"/", "s", "?", "q", "=", "{", "t", "}">>)),
        Method(<<"p">>, <<"p">>, <<>>, TOptText, FALSE,
               Http(POST, <<"/", "p">>)),
        Method(<<"u">>, <<"u">>, <<Param(<<"a">>, TText)>>, TText, FALSE,
               Http(POST, <<"/", "u", "/", "{", "a", "}">>)),
        Method(<<"e">>, <<"e">>, <<Param(<<"t">>, TText), Param(<<"o">>, TOptText)>>,
               TText, TRUE, <<>>),
        Method(<<"x", "_">>, <<"x">>, <<>>, TNone, FALSE,
               Http(PUT, <<"/", "x">>))
    >>]

\* Three GET routes whose templates all match /u/x/y or /v/x, and a DELETE
\* route on the template of one of them.
Service2 ==
    [methods |-> <<
        Method(<<"c">>, <<"c">>, <<Param(<<"c">>, TText)>>, TText, FALSE,
               Http(GET, <<"/", "{", "c", "}">>)),
        Method(<<"a">>, <<"a">>, <<Param(<<"a">>, TText)>>, TText, FALSE,
               Http(GET, <<"/", "v", "/", "{", "a", "}">>)),
        Method(<<"d">>, <<"d">>, <<Param(<<"a">>, TText)>>, TOptText, FALSE,
               Http(DELETE, <<"/", "v", "/", "{", "a", "}">>)),
        Method(<<"a", "b">>, <<"a", "b">>,
               <<Param(<<"a">>, TText), Param(<<"b">>, TText)>>, TText, FALSE,
               Http(GET, <<"/", "u", "/", "{", "a", "}", "/", "{", "b", "}">>))
    >>]

\* A route annotated with the root path, and one annotated with the root
\* path and a query clause.
Service3 ==
    [methods |-> <<
        Method(<<"r">>, <<"r">>, <<>>, TText, FALSE, Http(GET, <<"/">>))
    >>]

Service4 ==
    [methods |-> <<
        Method(<<"r">>, <<"r">>, <<Param(<<"a">>, TText)>>, TText, FALSE,
               Http(GET, <<"/", "?", "q", "=", "{", "a", "}">>))
    >>]

\* Verbs annotated in lower case, one on the template of a GET route; and
\* the only routes of its service that match /u/x/y, both with two path
\* variables, in opposite orders; the second has "_" in its name.
Service5 ==
    [methods |-> <<
        Method(<<"s">>, <<"s">>, <<>>, TOptText, FALSE,
               Http(<<"g", "e", "t">>, <<"/", "s">>)),
        Method(<<"p">>, <<"p">>, <<>>, TOptText, FALSE,
               Http(GET, <<"/", "s">>)),
        Method(<<"x">>, <<"x">>, <<>>, TOptText, FALSE,
               Http(<<"p", "u", "t">>, <<"/", "x">>)),
        Method(<<"a", "b">>, <<"a", "b">>,
               <<Param(<<"a">>, TText), Param(<<"b">>, TText)>>, TOptText, FALSE,
               Http(GET, <<"/", "u", "/", "{", "a", "}", "/", "{", "b", "}">>)),
        Method(<<"b", "_", "a">>, <<"b", "_", "a">>,
               <<Param(<<"a">>, TText), Param(<<"b">>, TText)>>, TText, FALSE,
               Http(POST, <<"/", "u", "/", "{", "b", "}", "/", "{", "a", "}">>))
    >>]

\* A template with two question marks.
Service6 ==
    [methods |-> <<
        Method(<<"s">>, <<"s">>, <<Param(<<"t">>, TText)>>, TText, FALSE,
               Http(GET, <<"/", "s", "?", "q", "=", "{", "t", "}", "?", "m">>))
    >>]

\* The arguments WsgiApp is constructed with.
Configurations ==
    {[service |-> Service1,
      allowed_origins |-> {<<"*", ".", "a">>},
      allowed_headers |-> {<<"x">>, <<" ", "A">>}],
     [service |-> Service2,
      allowed_origins |-> {<<" ", "A", " ">>},
      allowed_headers |-> {}],
     [service |-> Service3, allowed_origins |-> {}, allowed_headers |-> {}],
     [service |-> Service4, allowed_origins |-> {}, allowed_headers |-> {}],
     [service |-> Service5, allowed_origins |-> {}, allowed_headers |-> {}],
     [service |-> Service6, allowed_origins |-> {}, allowed_headers |-> {}]}

\* The longest host name of an Origin header.
MaxHostLen == 3

HostChars == {"a", "B", "."}

RECURSIVE TextsUpTo(_, _)
TextsUpTo(chars, n) ==
    IF n = 0 THEN {<<>>}
    ELSE LET shorter == TextsUpTo(chars, n - 1)
         IN  shorter \cup {Append(t, c) : t \in shorter, c \in chars}

Origins ==
    {<<[scheme |-> sc, netloc |-> h]>> :
        sc \in {"http", "https", "ftp"}, h \in TextsUpTo(HostChars, MaxHostLen)}

Body(kind, fields, items) == [kind |-> kind, fields |-> fields, items |-> items]

Bodies ==
    {Body("empty", EmptyDict, <<>>),
     Body("malformed", EmptyDict, <<>>),
     Body("object", [k \in {<<"t">>} |-> JStr(<<"x">>)], <<>>),
     Body("object", [k \in {<<"a">>} |-> JStr(<<"b">>)], <<>>),
     Body("list", EmptyDict, <<>>),
     Body("list", EmptyDict, <<<<"t">>>>),
     Body("number", EmptyDict, <<>>)}

Methods == {GET, POST, PUT, DELETE, OPTIONS}

Paths ==
    {<<"/">>, <<"/", "s">>, <<"/", "p">>, <<"/", "x">>, <<"/", "u", "/", "x">>,
     <<"/", "v", "/", "x">>, <<"/", "u", "/", "x", "/", "y">>}

QueryStrings ==
    {<<>>,
     <<"q", "=", "h">>,
     <<"q", "=", "h", "&", "q", "=", "y">>,
     <<"m", "e", "t", "h", "o", "d", "=", "e">>,
     <<"m", "e", "t", "h", "o", "d", "=", "x">>,
     <<"m", "e", "t", "h", "o", "d", "=", "y">>,
     <<"m", "e", "t", "h", "o", "d", "=">>}

Req(method, path, querystring, body, origin) ==
    [method |-> method, path |-> path, querystring |-> querystring,
     body |-> body, origin |-> origin]

\* Every method, path, query string and body without an Origin header;
\* every method, path and query string with an allowed Origin header and no
\* body; and two requests with every Origin header.
Requests ==
    {Req(m, p, q, b, <<>>) :
        m \in Methods, p \in Paths, q \in QueryStrings, b \in Bodies}
    \cup {Req(m, p, q, Body("empty", EmptyDict, <<>>),
              <<[scheme |-> "https", netloc |-> <<"B", ".", "a">>]>>) :
             m \in Methods, p \in Paths, q \in QueryStrings}
    \cup {Req(POST, <<"/">>, <<"m", "e", "t", "h", "o", "d", "=", "e">>,
              Body("object", [k \in {<<"t">>} |-> JStr(<<"x">>)], <<>>), o) :
             o \in Origins}
    \cup {Req(PUT, <<"/", "p">>, <<>>, Body("empty", EmptyDict, <<>>), o) :
             o \in Origins}

\* What a procedure may do when called: return None, a str or an int, or
\* raise one of the errors its method declares.
Outcomes(method) ==
    {[raised |-> FALSE, result |-> r] : r \in {PyNone, PyStr(<<"r">>), PyInt}}
    \cup (IF method.errors THEN {[raised |-> TRUE, result |-> PyNone]} ELSE {})

(***************************************************************************)
(* The state machine: an application is constructed, then serves requests  *)
(* one at a time.  pc is where the request in hand is: "dispatch" before    *)
(* dispatch_method, "rpc" at the entry of rpc, "call" at the call of the procedure, *)
(* "done" with the response.                                                *)
(***************************************************************************)

VARIABLES pc, app, set_order, request, matched, dispatch, bound, result,
          response, calls

vars == <<pc, app, set_order, request, matched, dispatch, bound, result,
          response, calls>>

\* Every arrangement of a set of names.
Arrangements(names) ==
    {o \in [1..Cardinality(names) -> names] :
        \A i, j \in 1..Cardinality(names) : i # j => o[i] # o[j]}

\* The orders in which a process may iterate the sets of names match_path
\* builds.  The set is filled from the groups of the path pattern in their
\* order, so each list of two or more groups has an arrangement of its own
\* (a set of one name is iterated in one way).
SetOrders(rules) ==
    LET groups == {g \in {PathNames(rules[i].matcher.path_pattern) :
                              i \in 1..Len(rules)} : Len(g) > 1}
    IN  {o \in [groups -> UNION {Arrangements(Range(g)) : g \in groups}] :
            \A g \in groups : o[g] \in Arrangements(Range(g))}

NoApp == [ok |-> FALSE, exc |-> "", service |-> [methods |-> <<>>], allowed_origins |-> {},
          allowed_origin_patterns |-> {}, allowed_headers |-> {}, rules |-> <<>>]

NoRequest == Req(<<>>, <<>>, <<>>, Body("empty", EmptyDict, <<>>), <<>>)

NoMatched == [match |-> <<>>, matched_verb |-> <<>>]

NoDispatch == Raised("", 0, NoMessage)

NoBound == [kind |-> "", method |-> <<>>, arguments |-> <<>>, response |-> Escapes("")]

NoResponse == Escapes("")

NoResult == [raised |-> FALSE, result |-> PyNone]

Init ==
    /\ pc = "new"
    /\ app = NoApp
    /\ set_order = <<>>
    /\ request = NoRequest
    /\ matched = NoMatched
    /\ dispatch = NoDispatch
    /\ bound = NoBound
    /\ result = NoResult
    /\ response = NoResponse
    /\ calls = 0

\* WsgiApp(service, allowed_origins, allowed_headers); an exception leaves
\* no application.  The hash seed of the process fixes the order in which
\* sets of names are iterated from here on.
Construct(cfg) ==
    /\ pc = "new"
    /\ LET made == WsgiApp(cfg.service, cfg.allowed_origins, cfg.allowed_headers)
       IN  /\ app' = IF made.ok THEN made ELSE [NoApp EXCEPT !.exc = made.exc]
           /\ pc' = IF made.ok THEN "idle" ELSE "failed"
    /\ set_order' \in SetOrders(app'.rules)
    /\ UNCHANGED <<request, matched, dispatch, bound, result, response, calls>>

\* WsgiApp.__call__(environ, start_response)
Receive(req) ==
    /\ pc = "idle"
    /\ request' = req
    /\ pc' = "dispatch"
    /\ UNCHANGED <<app, set_order, matched, dispatch, bound, result, response, calls>>

\* route up to the call of rpc: dispatch_method (its call of match_request,
\* kept in matched, and the rest of it on that result) and what route does
\* with a MethodDispatchError, with OPTIONS and with a missing method name.
Dispatch ==
    /\ pc = "dispatch"
    /\ matched' = match_request(app.rules, request.method, request.path,
                                request.querystring, set_order)
    /\ dispatch' = DispatchMatch(app, request, matched')
    /\ IF dispatch'.kind = "MethodDispatchError"
       THEN response' = error(dispatch'.status_code, dispatch'.message) /\ pc' = "done"
       ELSE IF dispatch'.kind # "MethodDispatch"
       THEN response' = Escapes(dispatch'.kind) /\ pc' = "done"
       ELSE IF request.method = OPTIONS
       THEN response' = OptionsResponse(dispatch'.cors_headers) /\ pc' = "done"
       ELSE IF dispatch'.service_method = <<>> \/ dispatch'.service_method = <<<<>>>>
       THEN /\ response' = error(400, Message("method is missing", <<>>))
            /\ pc' = "done"
       ELSE response' = response /\ pc' = "rpc"
    /\ UNCHANGED <<app, set_order, request, bound, result, calls>>

\* rpc up to the call of the procedure, and what route does when rpc raises
\* ServiceMethodError or returns an error response.
Bind ==
    /\ pc = "rpc"
    /\ LET b == rpc_bind(app, dispatch.service_method[1], dispatch.payload)
       IN  /\ bound' = b
           /\ IF b.kind = "call" THEN response' = response /\ pc' = "call"
              ELSE /\ pc' = "done"
                   /\ response' =
                        IF b.kind = "ServiceMethodError"
                        THEN error(IF dispatch.routed THEN 404 ELSE 400,
                                   Message("No service method found",
                                           dispatch.service_method[1]))
                        ELSE IF b.kind = "return"
                        THEN WithCors(b.response, dispatch.cors_headers)
                        ELSE b.response
    /\ UNCHANGED <<app, set_order, request, matched, dispatch, result, calls>>

\* the call of the procedure with its outcome, the rest of rpc, and route's merge of
\* the CORS headers into the response.
Call(outcome) ==
    /\ pc = "call"
    /\ calls' = calls + 1
    /\ result' = outcome
    /\ response' = WithCors(rpc_return(bound.method[1], dispatch.service_method[1], outcome),
                            dispatch.cors_headers)
    /\ pc' = "done"
    /\ UNCHANGED <<app, set_order, request, matched, dispatch, bound>>

\* The response is handed to the server; the application waits for the next
\* request.
Finish ==
    /\ pc = "done"
    /\ pc' = "idle"
    /\ request' = NoRequest
    /\ matched' = NoMatched
    /\ dispatch' = NoDispatch
    /\ bound' = NoBound
    /\ result' = NoResult
    /\ response' = NoResponse
    /\ calls' = 0
    /\ UNCHANGED <<app, set_order>>

Next ==
    \/ \E cfg \in Configurations : Construct(cfg)
    \/ \E req \in Requests : Receive(req)
    \/ Dispatch
    \/ Bind
    \/ pc = "call" /\ \E outcome \in Outcomes(bound.method[1]) : Call(outcome)
    \/ Finish

Spec == Init /\ [][Next]_vars

(***************************************************************************)
(* Properties.                                                             *)
(***************************************************************************)

Served == pc = "done"

\* The request in hand has been through match_request.
Matched == pc \in {"rpc", "call", "done"}

Header(name) == SelectSeq(response.headers, LAMBDA h : h.k = name)

HasHeader(name) == Header(name) # <<>>

Rules == Range(app.rules)

PathMatches(rule) == match_path(rule.matcher, request.path, set_order).ok

\* Every key the rule's template declares occurs in the query string.
KeyOccurs(key) ==
    \E i \in 1..Len(request.querystring) : HasAt(request.querystring, key \o <<"=">>, i)

QueryClauseMatches(rule) ==
    \A i \in 1..Len(rule.matcher.querystring_pattern) :
        KeyOccurs(rule.matcher.querystring_pattern[i].key)

\* The rules match_request selected from: the name of the selected match.
SelectedRules == {r \in Rules : matched.match # <<>>
                                  /\ r.name = matched.match[1].method_name}

\* C1: in match_request, for a non-root request, a rule contributes its verb
\* or is selected only if its path template matches the request path and its
\* query clause matches the query string.
C1_OnlyMatchingRulesAreCandidates ==
    (Matched /\ request.path # <<"/">>) =>
        /\ \A i \in 1..Len(matched.matched_verb) :
               \E r \in Rules : /\ Upper(r.verb) = matched.matched_verb[i]
                                /\ PathMatches(r)
                                /\ QueryClauseMatches(r)
        /\ \A r \in SelectedRules : PathMatches(r) /\ QueryClauseMatches(r)

\* C2: a rule whose template declares query variables is matched only if
\* every declared key occurs in the query string (so not with an empty query
\* string), and GET /s?q=h matches /s?q={t} with t = "h".
C2_QueryVariablesNeedTheirKeys ==
    Matched =>
        /\ \A r \in SelectedRules : QueryClauseMatches(r)
        /\ (/\ request.method = GET
            /\ request.path = <<"/", "s">>
            /\ request.querystring = <<"q", "=", "h">>
            /\ app.service = Service1)
           => /\ matched.match # <<>>
              /\ matched.match[1].method_name = <<"s">>
              /\ get_variable(matched.match[1].match_group, <<"t">>) = JStr(<<"h">>)

\* The request path matches the path template of some rules, all bound to POST.
OnlyPostRulesMatch ==
    /\ \E r \in Rules : PathMatches(r)
    /\ \A r \in Rules : PathMatches(r) => Upper(r.verb) = POST

\* C3: a request with a verb other than POST and OPTIONS to a path that
\* matches only a POST rule gets 405 with an Access-Control-Allow-Methods
\* header listing POST and OPTIONS.
C3_MethodNotAllowedListsVerbs ==
    (Served /\ request.method \notin {POST, OPTIONS} /\ OnlyPostRulesMatch) =>
        /\ response.kind = "response"
        /\ response.status = 405
        /\ HasHeader("Access-Control-Allow-Methods")
        /\ {POST, OPTIONS} \subseteq Range(Header("Access-Control-Allow-Methods")[1].v)

\* C4: every OPTIONS request to a path that matches a rule, whatever its body
\* and headers, gets 200, an empty body and an Access-Control-Allow-Methods
\* header with every verb bound to the path plus OPTIONS, and no procedure is
\* called.
C4_OptionsAlwaysAnswered ==
    (Served /\ request.method = OPTIONS /\ \E r \in Rules : PathMatches(r)) =>
        /\ response.kind = "response"
        /\ response.status = 200
        /\ response.body.kind = "empty"
        /\ HasHeader("Access-Control-Allow-Methods")
        /\ {Upper(r.verb) : r \in {x \in Rules : PathMatches(x)}} \cup {OPTIONS}
               \subseteq Range(Header("Access-Control-Allow-Methods")[1].v)
        /\ calls = 0

NumVars(rule) == Cardinality(rule.matcher.names)

\* C5: match_request scans a rule with more variables before one with fewer,
\* and among equal counts the greater template text first; so of two rules
\* that match with the request's verb the one with more variables is selected.
C5_ScanOrderByVariableCount ==
    (pc \notin {"new", "failed"}) =>
        LET scan == request_rules(app.rules)
        IN  /\ \A i, j \in 1..Len(scan) :
                   i < j => /\ NumVars(scan[i]) >= NumVars(scan[j])
                            /\ NumVars(scan[i]) = NumVars(scan[j])
                                   => ~StrLT(scan[i].uri_template, scan[j].uri_template)
            /\ (Matched /\ request.method # OPTIONS) =>
                   \A r \in SelectedRules, o \in Rules :
                       (o.verb = request.method
                            /\ RuleMatch(o, request.path, request.querystring, set_order).candidate)
                           => NumVars(o) <= NumVars(r)

\* C6: every response carries Vary: Origin.
C6_VaryOriginAlways ==
    (Served /\ response.kind = "response") =>
        /\ HasHeader("Vary")
        /\ Header("Vary")[1].v = <<"Origin">>

\* The method the procedure name of the request stands for, by behind name.
KnownMethods ==
    {m \in Range(app.service.methods) :
        dispatch.service_method # <<>> /\ m.behind = dispatch.service_method[1]}

\* The required parameters of method m that get a value neither from the
\* path/query captures nor from a key of the JSON body.
MissingParams(m) ==
    {p \in Range(m.params) :
        /\ ~p.type.optional
        /\ dispatch.routed =>
               get_variable(matched.match[1].match_group, p.name) = JNull
        /\ ~(request.body.kind = "object" /\ p.behind \in DOMAIN request.body.fields)}

\* C7: for every dispatched request, a required parameter without a captured
\* value and without a key in the JSON body gives 400 with the "is missing,
\* it is required" message naming it, and the procedure is not called.
C7_MissingArgumentReported ==
    (Served /\ dispatch.kind = "MethodDispatch" /\ request.method # OPTIONS) =>
        \A m \in KnownMethods :
            MissingParams(m) # {} =>
                /\ response.kind = "response"
                /\ response.status = 400
                /\ response.body.message.text = "A argument is missing, it is required"
                /\ response.body.message.arg \in {p.behind : p \in MissingParams(m)}
                /\ calls = 0

\* The procedure name the request resolves to: the target of the selected
\* rule when a path rule matched, the "method" query parameter under the
\* fallback protocol (POST or OPTIONS without a match); <<>> without one.
ResolvedName ==
    IF matched.match # <<>> THEN <<matched.match[1].method_name>>
    ELSE IF request.method \in {POST, OPTIONS}
    THEN ArgsGet(request.querystring, <<"m", "e", "t", "h", "o", "d">>, 1)
    ELSE <<>>

\* The request resolves to a name that no method has as its behind name.
UnknownName ==
    /\ ResolvedName # <<>>
    /\ \A m \in Range(app.service.methods) : m.behind # ResolvedName[1]

NotFoundStatus ==
    /\ response.kind = "response"
    /\ response.status = IF matched.match # <<>> THEN 404 ELSE 400
    /\ calls = 0

\* C8: whenever the resolved procedure name is not in the name table, the
\* procedure is not called and the response is 404 when a path rule matched
\* and 400 when the name came from the "method" query parameter.  An OPTIONS
\* request, which is answered before any dispatch, is left aside.
C8_UnknownNameAlwaysRejected ==
    (Served /\ UnknownName /\ request.method # OPTIONS) => NotFoundStatus

\* The arguments the application was constructed with.
Configuration == CHOOSE cfg \in Configurations : cfg.service = app.service

DotFreeLabels ==
    {t \in TextsUpTo({LowerChar(c) : c \in HostChars} \ {"."}, MaxHostLen) : t # <<>>}

Stars(d) == Cardinality({i \in 1..Len(d) : d[i] = "*"})

\* The pattern d with its k-th "*" replaced by labels[k].
RECURSIVE Fill(_, _, _, _)
Fill(d, i, labels, k) ==
    IF i > Len(d) THEN <<>>
    ELSE IF d[i] = "*" THEN labels[k] \o Fill(d, i + 1, labels, k + 1)
    ELSE <<d[i]>> \o Fill(d, i + 1, labels, k)

\* The origin policy: scheme http or https, and the host name equal to a
\* configured literal domain whatever the case, or an instance of a
\* configured wildcard pattern with one dot-free label for each "*".
PolicyAllows(origin) ==
    /\ origin.scheme \in {"http", "https"}
    /\ origin.netloc # <<>>
    /\ \E d \in Configuration.allowed_origins :
           IF Stars(d) = 0 THEN Lower(Strip(d)) = Lower(origin.netloc)
           ELSE \E labels \in [1..Stars(d) -> DotFreeLabels] :
                    Fill(Lower(Strip(d)), 1, labels, 1) = Lower(origin.netloc)

\* C9: a response carries Access-Control-Allow-Origin only for a request whose
\* Origin the policy allows, and then it echoes that Origin; a response that
\* carries the CORS headers for such a request does carry it.
C9_AllowOriginOnlyForAllowedOrigins ==
    Served =>
        /\ HasHeader("Access-Control-Allow-Origin") =>
               /\ request.origin # <<>>
               /\ PolicyAllows(request.origin[1])
               /\ Header("Access-Control-Allow-Origin")[1].v = request.origin
        /\ (HasHeader("Vary") /\ request.origin # <<>> /\ PolicyAllows(request.origin[1]))
               => HasHeader("Access-Control-Allow-Origin")

\* A response echoes the Origin https://B.a, allowed by the pattern *.a.
C9_WildcardOriginAllowed ==
    /\ Served
    /\ HasHeader("Access-Control-Allow-Origin")
    /\ request.origin = <<[scheme |-> "https", netloc |-> <<"B", ".", "a">>]>>
    /\ Configuration.allowed_origins = {<<"*", ".", "a">>}

\* The declared return type of the method called.
ReturnType == bound.method[1].ret

\* r is valid for the return type: null with a nullable type, or a value
\* that decodes from its own encoding.
ValidResult(r) ==
    \/ r = PyNone /\ ReturnType.optional
    \/ deserialize_meta(ReturnType, serialize_meta(r)).ok

\* C10: after the procedure returns r, the response is 200 with the encoding
\* of r exactly when r is valid for the return type; otherwise it is 500,
\* with the "tried to return nothing" message when r is null.
C10_ReturnValueValidated ==
    (Served /\ calls = 1 /\ ~result.raised) =>
        /\ response.kind = "response"
        /\ ValidResult(result.result) =>
               /\ response.status = 200
               /\ response.body = ResultBody("result", serialize_meta(result.result))
        /\ ~ValidResult(result.result) =>
               /\ response.status = 500
               /\ response.body.kind = "error"
               /\ response.body.message.text =
                      IF result.result = PyNone
                      THEN "return type is not optional, but tried to return nothing"
                      ELSE "tried to return a value of an invalid type"

\* A procedure whose return type is neither optional nor None returned None
\* and the response is 500.
C10_NothingForRequiredType ==
    /\ Served
    /\ calls = 1
    /\ ~result.raised
    /\ result.result = PyNone
    /\ ~ReturnType.optional
    /\ ReturnType # TNone
    /\ response.status = 500

\* The path part of a template: the text before its "?".
PathPart(uri_template) ==
    IF IndexOf(uri_template, "?", 1) = 0 THEN uri_template
    ELSE SubSeq(uri_template, 1, IndexOf(uri_template, "?", 1) - 1)

\* The root path: empty, or slashes only.
IsRootPath(path) == LStrip(path, "/") = <<>>

\* C11: the root path is never bindable: no rule of a constructed application
\* has the root path as the path part of its template, with or without a
\* query clause, because constructing from such an annotation raises
\* AnnotationError.
C11_RootPathNeverBound ==
    (pc \notin {"new", "failed"}) =>
        /\ \A r \in Rules : ~IsRootPath(PathPart(r.uri_template))
        /\ \A m \in Range(app.service.methods) :
               m.http # <<>> => ~IsRootPath(PathPart(m.http[1].path))

\* match_request selected a rule bound to GET or DELETE.
GetOrDeleteRuleSelected ==
    /\ Matched
    /\ matched.match # <<>>
    /\ matched.match[1].verb \in {GET, DELETE}

\* C12: when the selected rule is bound to GET or DELETE the request body is
\* not parsed: dispatch_method gives the same result for every body, the
\* payload holds the captured values only, and the response is never the
\* invalid-JSON error.  (After dispatch_method the response is made from its
\* result and from what the procedure does, not from the request body.)
C12_GetDeleteIgnoreBody ==
    GetOrDeleteRuleSelected =>
        /\ \A b \in Bodies : dispatch_method(app, [request EXCEPT !.body = b], set_order) = dispatch
        /\ dispatch.kind = "MethodDispatch" =>
               dispatch.payload.fields =
                   Captured(MethodOf(app.service, matched.match[1].method_name).params,
                            matched.match[1].match_group)
        /\ Served => response.body.message.text # "Invalid JSON payload"

\* A GET request with a malformed body was routed, the procedure was called
\* and the response is 200.
C12_MalformedBodyOfGetServed ==
    /\ Served
    /\ GetOrDeleteRuleSelected
    /\ request.method = GET
    /\ request.body.kind = "malformed"
    /\ calls = 1
    /\ response.status = 200

\* The rule is a candidate for the request: its path template matches the
\* path and its query clause matches the query string.
Candidate(rule) == PathMatches(rule) /\ QueryClauseMatches(rule)

\* The places in the scan order of the candidates that the request method
\* can select.
Eligible(scan) ==
    {i \in 1..Len(scan) :
        /\ Candidate(scan[i])
        /\ request.method = OPTIONS \/ scan[i].verb = request.method}

\* C13: for a request to another path than the root, the match
\* match_request selects is the first candidate in scan order
\* whose verb is the request method (the first candidate when the method is
\* OPTIONS), none without such a candidate, and the allowed verbs hold the
\* verb of every candidate.
C13_FirstCandidateSelected ==
    (Matched /\ request.path # <<"/">>) =>
        LET scan == request_rules(app.rules)
            first == CHOOSE i \in Eligible(scan) : \A j \in Eligible(scan) : i <= j
        IN  /\ Eligible(scan) = {} => matched.match = <<>>
            /\ Eligible(scan) # {} =>
                   /\ matched.match # <<>>
                   /\ matched.match[1].method_name = scan[first].name
                   /\ matched.match[1].verb = Upper(scan[first].verb)
            /\ \A i \in 1..Len(scan) :
                   Candidate(scan[i]) => Upper(scan[i].verb) \in Range(matched.matched_verb)

\* C14: route is total: every request is answered with a response whose
\* status is 200, 400, 404, 405 or 500, and no exception leaves the handling
\* of the request.
C14_RouteTotal ==
    Served =>
        /\ response.kind = "response"
        /\ response.status \in {200, 400, 404, 405, 500}

\* Parameter p of the procedure called got a value from the payload that
\* decodes against its type, and the procedure was called with that value.
BoundAndDecoded(p) ==
    LET got == get_argument_value(dispatch.payload, p.behind, p.type)
    IN  /\ got.kind = "ok"
        /\ deserialize_meta(p.type, got.data).ok
        /\ \E k \in 1..Len(bound.arguments) :
               /\ bound.arguments[k].name = p.name
               /\ bound.arguments[k].value = deserialize_meta(p.type, got.data).value

\* The response reports a missing or an invalid argument.
ArgumentErrorReported ==
    /\ response.kind = "response"
    /\ response.body.message.text \in {"A argument is missing, it is required",
                                       "Incorrect type for argument"}

\* C15: within one request the procedure is called at most once, and only
\* when the request is not OPTIONS, dispatch_method succeeded, the name is
\* not empty and is in the name table, and every declared parameter was
\* bound and decoded; it is not called when the response is an OPTIONS
\* answer, a dispatch error, a missing-name error or an argument error.
C15_HandlerCalledAtMostOnce ==
    /\ calls \in {0, 1}
    /\ calls = 1 =>
           /\ request.method # OPTIONS
           /\ dispatch.kind = "MethodDispatch"
           /\ dispatch.service_method \notin {<<>>, <<<<>>>>}
           /\ BehindNames(app.service, dispatch.service_method[1]) # <<>>
           /\ bound.kind = "call"
           /\ bound.method[1] = BehindNames(app.service, dispatch.service_method[1])[1]
           /\ \A p \in Range(bound.method[1].params) : BoundAndDecoded(p)
    /\ (Served /\ (\/ request.method = OPTIONS
                   \/ dispatch.kind # "MethodDispatch"
                   \/ dispatch.service_method \in {<<>>, <<<<>>>>}
                   \/ ArgumentErrorReported))
           => calls = 0

\* The procedure e of the fallback protocol was called once with its two
\* parameters bound.
C15_CalledWithBoundArguments ==
    /\ Served
    /\ calls = 1
    /\ ~dispatch.routed
    /\ Len(bound.arguments) = 2

=============================================================================
